---- MODULE Spec2Model ----
(***************************************************************************)
(* Metrics instrumentation (src/proxy/http/metrics/service.rs) and the     *)
(* retry decision (src/app/dst.rs) of the proxy.                           *)
(*                                                                         *)
(* Option<T> is a sequence: <<>> is None and <<x>> is Some(x).             *)
(* Spec      : the metrics middleware (Make, Measure, the body wrappers).  *)
(* TimedSpec : the response side with the clock running.                   *)
(* ScenarioSpec : one kind of exchange, empty request, empty 200 response. *)
(* LockSpec  : the Mutex acquisitions of the handlers, thread by thread.   *)
(* RetrySpec : Retry::retry against the shared retry budget.               *)
(***************************************************************************)
EXTENDS Integers, Sequences, FiniteSets, TLC

VARIABLES
    registry,   \* Registry behind Arc<Mutex<..>>: the map by_target and the lock's poison flag
    aggs,       \* the heap of Arc<Mutex<Metrics>>: aggs[h] is the aggregate of handle h
    measures,   \* what the calls of Make::make returned, oldest first
    exchanges,  \* per Measure::call: its RequestBody, ResponseFuture and ResponseBody
    now,        \* clock::now()
    ret,        \* what the last operation returned to its caller
    retry,      \* the Retry policy of a route: response_classes and timeout
    budget,     \* the shared retry budget (tower_retry::budget::Budget)
    log,        \* the Retry::retry invocations so far, oldest first
    threads     \* per worker thread: the handler it is in and the Mutex guards it holds

vars == <<registry, aggs, measures, exchanges, now, ret, retry, budget, log, threads>>

metricsVars == <<registry, aggs, measures, exchanges, now>>
retryVars == <<retry, budget, log>>

-----------------------------------------------------------------------------
(* Bounds *)

MaxMakes == 2
MaxExchanges == 1
MaxFrames == 1
MaxTime == 2
MaxBudget == 2
MaxChecks == 3
MaxThreads == 2

-----------------------------------------------------------------------------
(* Option *)

None == <<>>
Some(x) == <<x>>
IsSome(o) == o # <<>>
Unwrap(o) == o[1]

-----------------------------------------------------------------------------
(* Retry::retry, src/app/dst.rs *)

Statuses == {"200", "500"}
Classes == {"success", "failure"}

\* classify::Class::is_failure and profiles::ResponseClass::is_failure
ClassIsFailure(class) == class = "failure"
RuleIsFailure(rule) == rule.failure

\* profiles::ResponseClass::is_match
IsMatch(rule, res) == res.status \in rule.statuses

\* The for loop over response_classes: the index of the first rule that
\* matches, 0 when none does.
RECURSIVE FirstMatchFrom(_, _, _)
FirstMatchFrom(rules, res, i) ==
    IF i > Len(rules) THEN 0
    ELSE IF IsMatch(rules[i], res) THEN i
    ELSE FirstMatchFrom(rules, res, i + 1)

LastMatch(rules, res) ==
    LET m == {i \in 1..Len(rules) : IsMatch(rules[i], res)}
    IN  IF m = {} THEN 0 ELSE CHOOSE i \in m : \A j \in m : j <= i

FirstMatch(rules, res) == FirstMatchFrom(rules, res, 1)

\* is_failure as lines 72-82 compute it
IsFailureLastRule(rules, res) ==
    IF IsSome(res.class) THEN ClassIsFailure(Unwrap(res.class))
    ELSE LET i == LastMatch(rules, res)
         IN  IF i = 0 THEN FALSE ELSE RuleIsFailure(rules[i])

IsFailureRulesFirst(rules, res) ==
    LET i == FirstMatch(rules, res)
    IN  IF i # 0 THEN RuleIsFailure(rules[i])
        ELSE IF IsSome(res.class) THEN ClassIsFailure(Unwrap(res.class))
        ELSE FALSE

IsFailure(rules, res) ==
    IF IsSome(res.class) THEN ClassIsFailure(Unwrap(res.class))
    ELSE LET i == FirstMatch(rules, res)
         IN  IF i = 0 THEN FALSE ELSE RuleIsFailure(rules[i])

\* clock::now() - started_at > self.timeout
TimedOutNever(elapsed, timeout) == FALSE

TimedOut(elapsed, timeout) == elapsed > timeout

\* Budget::withdraw and Budget::deposit: one unit each; withdraw fails, and
\* takes nothing, when no unit is left.
Withdraw(b) == IF b >= 1 THEN [ok |-> TRUE, balance |-> b - 1]
               ELSE [ok |-> FALSE, balance |-> b]
Deposit(b) == b + 1

\* Retry::retry: the decision returned, the budget operation performed and
\* the budget left.
RetryNoDeposit(r, b, elapsed, res) ==
    IF TimedOut(elapsed, r.timeout)
    THEN [decision |-> "Timeout", op |-> "none", balance |-> b]
    ELSE IF IsFailure(r.response_classes, res)
    THEN LET w == Withdraw(b)
         IN  [decision |-> IF w.ok THEN "Retry" ELSE "Budget",
              op |-> "withdraw", balance |-> w.balance]
    ELSE [decision |-> "Success", op |-> "none", balance |-> b]

RetryIgnoresOverdraw(r, b, elapsed, res) ==
    IF TimedOut(elapsed, r.timeout)
    THEN [decision |-> "Timeout", op |-> "none", balance |-> b]
    ELSE IF IsFailure(r.response_classes, res)
    THEN LET w == Withdraw(b)
         IN  [decision |-> "Retry", op |-> "withdraw", balance |-> w.balance]
    ELSE [decision |-> "Success", op |-> "deposit", balance |-> Deposit(b)]

RetryDepositsOnTimeout(r, b, elapsed, res) ==
    IF TimedOut(elapsed, r.timeout)
    THEN [decision |-> "Timeout", op |-> "deposit", balance |-> Deposit(b)]
    ELSE IF IsFailure(r.response_classes, res)
    THEN LET w == Withdraw(b)
         IN  [decision |-> IF w.ok THEN "Retry" ELSE "Budget",
              op |-> "withdraw", balance |-> w.balance]
    ELSE [decision |-> "Success", op |-> "deposit", balance |-> Deposit(b)]

RetryResult(r, b, elapsed, res) ==
    IF TimedOut(elapsed, r.timeout)
    THEN [decision |-> "Timeout", op |-> "none", balance |-> b]
    ELSE IF IsFailure(r.response_classes, res)
    THEN LET w == Withdraw(b)
         IN  [decision |-> IF w.ok THEN "Retry" ELSE "Budget",
              op |-> "withdraw", balance |-> w.balance]
    ELSE [decision |-> "Success", op |-> "deposit", balance |-> Deposit(b)]

\* The routes' retry policies: rule lists over two rules, in either order.
Rule500Failure == [statuses |-> {"500"}, failure |-> TRUE]
RuleAnySuccess == [statuses |-> Statuses, failure |-> FALSE]
RuleSet == {Rule500Failure, RuleAnySuccess}
RuleLists == {<<>>} \cup {<<a>> : a \in RuleSet}
                 \cup {<<a, b>> : a \in RuleSet, b \in RuleSet}

\* http::Response as Retry::retry reads it: the status the rules match on and
\* the classify::Class extension a previous layer may have attached.
Responses == [status : Statuses, class : {None} \cup {Some(c) : c \in Classes}]

NoRet == [op |-> "none"]

RetryInit ==
    /\ retry \in [response_classes : RuleLists, timeout : 0..(MaxTime - 1)]
    /\ budget \in 0..MaxBudget
    /\ log = <<>>

\* One invocation of Retry::retry; elapsed is clock::now() - started_at.
RetryCheck(elapsed, res) ==
    /\ Len(log) < MaxChecks
    /\ LET out == RetryResult(retry, budget, elapsed, res)
       IN  /\ budget' = out.balance
           /\ log' = Append(log, [timedOut |-> TimedOut(elapsed, retry.timeout),
                                  failure |-> IsFailure(retry.response_classes, res),
                                  decision |-> out.decision,
                                  op |-> out.op,
                                  before |-> budget,
                                  after |-> out.balance])
           /\ ret' = [op |-> "retry", elapsed |-> elapsed, res |-> res,
                      decision |-> out.decision]
    /\ UNCHANGED <<retry, metricsVars, threads>>

RetryNext == \E elapsed \in 0..MaxTime, res \in Responses : RetryCheck(elapsed, res)

-----------------------------------------------------------------------------
(* The metrics middleware, src/proxy/http/metrics/service.rs *)

Keys == {"a", "b"}

EmptyMap == [k \in {} |-> None]

\* ClassMetrics::default() and Metrics::default(); poisoned is the state of
\* the Mutex around the aggregate. latency is the sum of the samples added.
ClassMetricsDefault == [total |-> 0, latency |-> 0]
MetricsDefault ==
    [total |-> 0, by_class |-> EmptyMap, unclassified |-> ClassMetricsDefault,
     poisoned |-> FALSE]

\* The ClassifyResponse capability attached to a request: a strategy of kind
\* "head" classifies by the status at the response head, one of kind "eos"
\* only at the end of the stream. status is what start has seen.
StatusClass(status) == IF status = "200" THEN "success" ELSE "failure"
Strategies == [kind : {"head", "eos"}, status : {"none"}]
Trailers == {"ok", "fail"}

ClassifyStart(c, status) ==
    [classify |-> [c EXCEPT !.status = status],
     class |-> IF c.kind = "head" THEN Some(StatusClass(status)) ELSE None]
ClassifyError(c) == "failure"
ClassifyEos(c, trls) ==
    IF IsSome(trls) THEN (IF Unwrap(trls) = "ok" THEN "success" ELSE "failure")
    ELSE IF c.status = "none" THEN "failure" ELSE StatusClass(c.status)

\* Make::make, lines 168-176: the registry lock, then entry().or_insert_with().
MakeMetricsReplace(reg, ag, target) ==
    IF reg.poisoned THEN [metrics |-> None, registry |-> reg, aggs |-> ag]
    ELSE LET h == Len(ag) + 1
         IN  [metrics |-> Some(h),
              registry |-> [reg EXCEPT !.by_target =
                               [k \in (DOMAIN @) \cup {target} |->
                                   IF k = target THEN h ELSE @[k]]],
              aggs |-> Append(ag, MetricsDefault)]

MakeMetricsIgnorePoison(reg, ag, target) ==
    IF target \in DOMAIN reg.by_target
    THEN [metrics |-> Some(reg.by_target[target]), registry |-> reg, aggs |-> ag]
    ELSE LET h == Len(ag) + 1
         IN  [metrics |-> Some(h),
              registry |-> [reg EXCEPT !.by_target = @ @@ (target :> h)],
              aggs |-> Append(ag, MetricsDefault)]

MakeMetrics(reg, ag, target) ==
    IF reg.poisoned THEN [metrics |-> None, registry |-> reg, aggs |-> ag]
    ELSE IF target \in DOMAIN reg.by_target
    THEN [metrics |-> Some(reg.by_target[target]), registry |-> reg, aggs |-> ag]
    ELSE LET h == Len(ag) + 1
         IN  [metrics |-> Some(h),
              registry |-> [reg EXCEPT !.by_target = @ @@ (target :> h)],
              aggs |-> Append(ag, MetricsDefault)]

\* `if let Some(lock) = m.take() { if let Ok(mut metrics) = lock.lock() {
\* metrics.total.incr() } }` of Measure::call and RequestBody::poll_data:
\* the handle left in the slot, the aggregates and the increments made.
IncrTotalKeepHandle(m, ag) ==
    IF ~IsSome(m) THEN [metrics |-> None, aggs |-> ag, incrs |-> 0]
    ELSE IF ag[Unwrap(m)].poisoned THEN [metrics |-> m, aggs |-> ag, incrs |-> 0]
    ELSE [metrics |-> m,
          aggs |-> [ag EXCEPT ![Unwrap(m)].total = @ + 1],
          incrs |-> 1]

IncrTotal(m, ag) ==
    IF ~IsSome(m) THEN [metrics |-> None, aggs |-> ag, incrs |-> 0]
    ELSE IF ag[Unwrap(m)].poisoned THEN [metrics |-> None, aggs |-> ag, incrs |-> 0]
    ELSE [metrics |-> None,
          aggs |-> [ag EXCEPT ![Unwrap(m)].total = @ + 1],
          incrs |-> 1]

\* class_metrics.total.incr(); class_metrics.latency.add(..) on the entry of
\* the class, created on first use, or on unclassified.
AddClassAsUnclassified(metrics, class, lat) ==
    [metrics EXCEPT !.unclassified =
        [total |-> @.total + 1, latency |-> @.latency + lat]]

AddClass(metrics, class, lat) ==
    IF IsSome(class)
    THEN LET c == Unwrap(class)
             old == IF c \in DOMAIN metrics.by_class THEN metrics.by_class[c]
                    ELSE ClassMetricsDefault
             new == [total |-> old.total + 1, latency |-> old.latency + lat]
         IN  [metrics EXCEPT !.by_class =
                 [k \in (DOMAIN @) \cup {c} |-> IF k = c THEN new ELSE @[k]]]
    ELSE [metrics EXCEPT !.unclassified =
             [total |-> @.total + 1, latency |-> @.latency + lat]]

\* ResponseBody::record_class on the response body of exchange x at time t.
\* recorded, recorded_class, latency and recorded_at keep what the exchange
\* has recorded and when.
RecordClassKeepsHandle(x, class, ag, t) ==
    IF ~IsSome(x.metrics) THEN [x |-> x, aggs |-> ag]
    ELSE LET h == Unwrap(x.metrics)
         IN  IF ag[h].poisoned THEN [x |-> x, aggs |-> ag]
             ELSE LET first_byte_at == IF IsSome(x.first_byte_at)
                                       THEN Unwrap(x.first_byte_at) ELSE t
                      lat == first_byte_at - x.stream_open_at
                  IN  [x |-> [x EXCEPT !.recorded = @ + 1,
                                       !.recorded_class = Some(class),
                                       !.latency = Some(lat),
                                       !.recorded_at = Some(t)],
                       aggs |-> [ag EXCEPT ![h] = AddClass(@, class, lat)]]

RecordClass(x, class, ag, t) ==
    IF ~IsSome(x.metrics) THEN [x |-> x, aggs |-> ag]
    ELSE LET h == Unwrap(x.metrics)
             taken == [x EXCEPT !.metrics = None]
         IN  IF ag[h].poisoned THEN [x |-> taken, aggs |-> ag]
             ELSE LET first_byte_at == IF IsSome(x.first_byte_at)
                                       THEN Unwrap(x.first_byte_at) ELSE t
                      lat == first_byte_at - x.stream_open_at
                  IN  [x |-> [taken EXCEPT !.recorded = @ + 1,
                                           !.recorded_class = Some(class),
                                           !.latency = Some(lat),
                                           !.recorded_at = Some(t)],
                       aggs |-> [ag EXCEPT ![h] = AddClass(@, class, lat)]]

\* The caller of record_class that made the record of the exchange.
RecordedBy(r, by) ==
    IF r.x.recorded > 0 /\ r.x.recorded_by = "none"
    THEN [r EXCEPT !.x.recorded_by = by] ELSE r

\* ResponseBody::measure_err
MeasureErrRecordsHeadClass(x, ag, t) ==
    LET c == IF IsSome(x.class_at_first_byte) THEN x.class_at_first_byte
             ELSE IF IsSome(x.classify)
             THEN Some(ClassifyError(Unwrap(x.classify))) ELSE None
        y == [x EXCEPT !.class_at_first_byte = None,
                       !.classify = None,
                       !.terminals = @ + (IF IsSome(x.classify) THEN 1 ELSE 0),
                       !.erred = TRUE]
    IN  RecordedBy(RecordClass(y, c, ag, t), "error")

MeasureErrKeepsStrategy(x, ag, t) ==
    LET c == IF IsSome(x.classify) THEN Some(ClassifyError(Unwrap(x.classify)))
             ELSE None
        y == [x EXCEPT !.class_at_first_byte = None,
                       !.terminals = @ + (IF IsSome(x.classify) THEN 1 ELSE 0),
                       !.erred = TRUE]
    IN  RecordedBy(RecordClass(y, c, ag, t), "error")

MeasureErr(x, ag, t) ==
    LET c == IF IsSome(x.classify) THEN Some(ClassifyError(Unwrap(x.classify)))
             ELSE None
        y == [x EXCEPT !.class_at_first_byte = None,
                       !.classify = None,
                       !.terminals = @ + (IF IsSome(x.classify) THEN 1 ELSE 0),
                       !.erred = TRUE]
    IN  RecordedBy(RecordClass(y, c, ag, t), "error")

\* What a wrapper returns for the result o of the inner call it makes:
\* try_ready! returns NotReady and Err(e) as they are, Ok(Async::Ready(..))
\* hands on the frame, trailers or response, and measure_err returns its err.
RequestBodyReturn(o) == o
ResponseFutureReturn(o) == o
ResponseBodyReturnEndsOnErr(o) == IF o = "Err" THEN "End" ELSE o

ResponseBodyReturn(o) == o

\* The worker threads of the proxy and the locks they contend for: the
\* Mutex of the registry and the Mutex of the aggregate of each key.
Threads == 1..MaxThreads
Locks == {"registry"} \cup Keys
IdleThread == [op |-> "idle", key |-> "none", pc |-> 0, held |-> {}]

MetricsInit ==
    /\ registry = [poisoned |-> FALSE, by_target |-> EmptyMap]
    /\ aggs = <<>>
    /\ measures = <<>>
    /\ exchanges = <<>>
    /\ now = 0
    /\ threads = [t \in Threads |-> IdleThread]

Init == MetricsInit /\ ret = NoRet /\ retry = [response_classes |-> <<>>, timeout |-> 0]
        /\ budget = 0 /\ log = <<>>

Exchange(e) == exchanges[e]
SetExchange(e, x) == [exchanges EXCEPT ![e] = x]

\* A panic of another holder of the lock (the metrics report) poisons it for
\* good: every later lock() is an Err.
PoisonRegistry ==
    /\ ~registry.poisoned
    /\ registry' = [registry EXCEPT !.poisoned = TRUE]
    /\ UNCHANGED <<aggs, measures, exchanges, now, ret, retryVars, threads>>

PoisonMetrics(h) ==
    /\ ~aggs[h].poisoned
    /\ aggs' = [aggs EXCEPT ![h].poisoned = TRUE]
    /\ UNCHANGED <<registry, measures, exchanges, now, ret, retryVars, threads>>

\* Make::make: inner_ok is the result of self.inner.make(target). measures
\* keeps what each call returned, Ok(Measure { metrics, inner }) or the Err,
\* and whether self.registry.lock() was reached and gave Ok.
MakeRegistersFirst(target, inner_ok) ==
    /\ Len(measures) < MaxMakes
    /\ LET r == MakeMetrics(registry, aggs, target)
       IN  /\ registry' = r.registry
           /\ aggs' = r.aggs
           /\ measures' = Append(measures,
                              [target |-> target, ok |-> inner_ok,
                               locked |-> inner_ok /\ ~registry.poisoned,
                               metrics |-> IF inner_ok THEN r.metrics ELSE None])
    /\ UNCHANGED <<exchanges, now, ret, retryVars, threads>>

Make(target, inner_ok) ==
    /\ Len(measures) < MaxMakes
    /\ IF ~inner_ok
       THEN /\ measures' = Append(measures,
                               [target |-> target, ok |-> FALSE, locked |-> FALSE,
                                metrics |-> None])
            /\ UNCHANGED <<registry, aggs>>
       ELSE LET r == MakeMetrics(registry, aggs, target)
            IN  /\ registry' = r.registry
                /\ aggs' = r.aggs
                /\ measures' = Append(measures,
                                   [target |-> target, ok |-> TRUE,
                                    locked |-> ~registry.poisoned,
                                    metrics |-> r.metrics])
    /\ UNCHANGED <<exchanges, now, ret, retryVars, threads>>

\* Measure::call on Measure m. The request body has len data frames to give
\* and is_end_stream() is eos; classify is the strategy in the request's
\* extensions. The ResponseFuture and, from ResponseFuture::poll on, the
\* ResponseBody share the fields classify, metrics and stream_open_at.
\* History kept per exchange: when the first data frame came, whether the
\* inner body gave an error, the number of start and of error/eos invocations.
Call(m, len, eos, classify) ==
    /\ Len(exchanges) < MaxExchanges
    /\ measures[m].ok
    /\ eos => len = 0
    /\ LET r == IF eos THEN IncrTotal(measures[m].metrics, aggs)
                ELSE [metrics |-> measures[m].metrics, aggs |-> aggs, incrs |-> 0]
       IN  /\ aggs' = r.aggs
           /\ exchanges' = Append(exchanges,
                [m |-> m,
                 req_metrics |-> r.metrics, req_state |-> "live",
                 req_len |-> len, req_left |-> len, req_ended |-> FALSE,
                 req_eos_at_call |-> eos, req_incrs |-> r.incrs,
                 fut_state |-> "pending",
                 classify |-> classify, metrics |-> measures[m].metrics,
                 stream_open_at |-> now,
                 rsp_state |-> "none", rsp_left |-> 0,
                 class_at_first_byte |-> None, first_byte_at |-> None,
                 recorded |-> 0, recorded_class |-> None, latency |-> None,
                 recorded_by |-> "none", recorded_at |-> None,
                 first_data_at |-> None, erred |-> FALSE,
                 starts |-> 0, terminals |-> 0, masked |-> FALSE])
    /\ UNCHANGED <<registry, measures, now, ret, retryVars, threads>>

\* RequestBody::poll_data; o is what self.inner.poll_data() gives.
ReqPollData(e, o) ==
    LET x == Exchange(e) IN
    /\ x.req_state = "live"
    /\ o = "Data" => x.req_left > 0
    /\ o = "End" => x.req_left = 0
    /\ IF o \in {"NotReady", "Err"}
       THEN /\ aggs' = aggs
            /\ exchanges' = SetExchange(e,
                  [x EXCEPT !.masked = @ \/ RequestBodyReturn(o) # o])
       ELSE LET r == IncrTotal(x.req_metrics, aggs)
            IN  /\ aggs' = r.aggs
                /\ exchanges' = SetExchange(e,
                     [x EXCEPT !.req_metrics = r.metrics,
                               !.req_incrs = @ + r.incrs,
                               !.req_left = IF o = "Data" THEN @ - 1 ELSE @,
                               !.req_ended = (o = "End"),
                               !.masked = @ \/ RequestBodyReturn(o) # o])
    /\ UNCHANGED <<registry, measures, now, ret, retryVars, threads>>

\* RequestBody::poll_trailers: self.inner.poll_trailers()
ReqPollTrailers(e, o) ==
    /\ Exchange(e).req_state = "live"
    /\ exchanges' = SetExchange(e,
         [Exchange(e) EXCEPT !.masked = @ \/ RequestBodyReturn(o) # o])
    /\ UNCHANGED <<registry, aggs, measures, now, ret, retryVars, threads>>

\* Drop for RequestBody: nothing but the release of its fields.
ReqDrop(e) ==
    /\ Exchange(e).req_state = "live"
    /\ exchanges' = SetExchange(e, [Exchange(e) EXCEPT !.req_state = "dropped",
                                                      !.req_metrics = None])
    /\ UNCHANGED <<registry, aggs, measures, now, ret, retryVars, threads>>

\* ResponseFuture::poll; o is what self.inner.poll() gives, a response head
\* with the given status and a body of frames data frames when Ready.
FutPoll(e, o, status, frames) ==
    LET x == Exchange(e) IN
    /\ x.fut_state = "pending"
    /\ exchanges' = SetExchange(e,
         IF o = "NotReady" THEN [x EXCEPT !.masked = @ \/ ResponseFutureReturn(o) # o]
         ELSE IF o = "Err" THEN [x EXCEPT !.fut_state = "failed",
                                          !.masked = @ \/ ResponseFutureReturn(o) # o]
         ELSE LET st == IF IsSome(x.classify)
                        THEN ClassifyStart(Unwrap(x.classify), status)
                        ELSE [classify |-> None, class |-> None]
              IN  [x EXCEPT !.fut_state = "ready",
                            !.classify = IF IsSome(x.classify) THEN Some(st.classify)
                                         ELSE None,
                            !.class_at_first_byte = st.class,
                            !.starts = @ + (IF IsSome(x.classify) THEN 1 ELSE 0),
                            !.first_byte_at = None,
                            !.rsp_state = "live",
                            !.rsp_left = frames,
                            !.masked = @ \/ ResponseFutureReturn(o) # o])
    /\ UNCHANGED <<registry, aggs, measures, now, ret, retryVars, threads>>

\* The ResponseFuture dropped before it resolved; it has no Drop impl.
FutDrop(e) ==
    /\ Exchange(e).fut_state = "pending"
    /\ exchanges' = SetExchange(e, [Exchange(e) EXCEPT !.fut_state = "dropped"])
    /\ UNCHANGED <<registry, aggs, measures, now, ret, retryVars, threads>>

\* ResponseBody::poll_data; o is what self.inner.poll_data() gives.
RspPollData(e, o) ==
    LET x == Exchange(e) IN
    /\ x.rsp_state = "live"
    /\ o = "Data" => x.rsp_left > 0
    /\ o = "End" => x.rsp_left = 0
    /\ LET r == IF o = "NotReady" THEN [x |-> x, aggs |-> aggs]
                ELSE IF o = "Err" THEN MeasureErr(x, aggs, now)
                ELSE LET y == [x EXCEPT !.first_byte_at =
                                          IF IsSome(@) THEN @ ELSE Some(now),
                                        !.first_data_at =
                                          IF o = "Data" /\ ~IsSome(@)
                                          THEN Some(now) ELSE @,
                                        !.rsp_left = IF o = "Data" THEN @ - 1 ELSE @,
                                        !.class_at_first_byte = None]
                     IN  IF IsSome(x.class_at_first_byte)
                         THEN RecordedBy(RecordClass(y, x.class_at_first_byte,
                                                     aggs, now), "data")
                         ELSE [x |-> y, aggs |-> aggs]
       IN  /\ exchanges' = SetExchange(e,
                 [r.x EXCEPT !.masked = @ \/ ResponseBodyReturn(o) # o])
           /\ aggs' = r.aggs
    /\ UNCHANGED <<registry, measures, now, ret, retryVars, threads>>

\* ResponseBody::poll_trailers; o is what self.inner.poll_trailers() gives,
\* trls the trailers when Ready.
RspPollTrailers(e, o, trls) ==
    LET x == Exchange(e) IN
    /\ x.rsp_state = "live"
    /\ LET r == IF o = "NotReady" THEN [x |-> x, aggs |-> aggs]
                ELSE IF o = "Err" THEN MeasureErr(x, aggs, now)
                ELSE LET c == IF IsSome(x.classify)
                              THEN Some(ClassifyEos(Unwrap(x.classify), trls))
                              ELSE None
                         y == [x EXCEPT !.classify = None,
                                        !.terminals = @ + (IF IsSome(x.classify)
                                                           THEN 1 ELSE 0)]
                     IN  RecordedBy(RecordClass(y, c, aggs, now), "trailers")
       IN  /\ exchanges' = SetExchange(e,
                 [r.x EXCEPT !.masked = @ \/ ResponseBodyReturn(o) # o])
           /\ aggs' = r.aggs
    /\ UNCHANGED <<registry, measures, now, ret, retryVars, threads>>

\* Drop for ResponseBody
RspDropNoFinalizer(e) ==
    /\ Exchange(e).rsp_state = "live"
    /\ exchanges' = SetExchange(e, [Exchange(e) EXCEPT !.rsp_state = "dropped"])
    /\ UNCHANGED <<registry, aggs, measures, now, ret, retryVars, threads>>

RspDrop(e) ==
    LET x == Exchange(e) IN
    /\ x.rsp_state = "live"
    /\ LET c == IF IsSome(x.classify)
                THEN Some(ClassifyEos(Unwrap(x.classify), None))
                ELSE None
           y == [x EXCEPT !.classify = None,
                          !.terminals = @ + (IF IsSome(x.classify) THEN 1 ELSE 0),
                          !.rsp_state = "dropped"]
           r == RecordedBy(RecordClass(y, c, aggs, now), "drop")
       IN  /\ exchanges' = SetExchange(e, r.x)
           /\ aggs' = r.aggs
    /\ UNCHANGED <<registry, measures, now, ret, retryVars, threads>>

\* clock::now() advances.
Tick ==
    /\ now < MaxTime
    /\ now' = now + 1
    /\ UNCHANGED <<registry, aggs, measures, exchanges, ret, retryVars, threads>>

PollOutcomes == {"NotReady", "Data", "End", "Err"}
TrailerOutcomes == {"NotReady", "Ready", "Err"}

Next ==
    \/ PoisonRegistry
    \/ \E h \in DOMAIN aggs : PoisonMetrics(h)
    \/ \E target \in Keys, inner_ok \in BOOLEAN : Make(target, inner_ok)
    \/ \E m \in DOMAIN measures, len \in 0..MaxFrames, eos \in BOOLEAN,
          classify \in {None} \cup {Some(c) : c \in Strategies} :
            Call(m, len, eos, classify)
    \/ \E e \in DOMAIN exchanges, o \in PollOutcomes : ReqPollData(e, o)
    \/ \E e \in DOMAIN exchanges, o \in TrailerOutcomes : ReqPollTrailers(e, o)
    \/ \E e \in DOMAIN exchanges : ReqDrop(e)
    \/ \E e \in DOMAIN exchanges, o \in {"NotReady", "Ready", "Err"},
          status \in Statuses, frames \in 0..MaxFrames :
            FutPoll(e, o, status, frames)
    \/ \E e \in DOMAIN exchanges : FutDrop(e)
    \/ \E e \in DOMAIN exchanges, o \in PollOutcomes : RspPollData(e, o)
    \/ \E e \in DOMAIN exchanges, o \in TrailerOutcomes,
          trls \in {None} \cup {Some(t) : t \in Trailers} :
            RspPollTrailers(e, o, trls)
    \/ \E e \in DOMAIN exchanges : RspDrop(e)

Spec == Init /\ [][Next]_vars

\* The response side with the clock running: every lock acquirable, the
\* request body left alone.
TimedNext ==
    \/ \E target \in Keys, inner_ok \in BOOLEAN : Make(target, inner_ok)
    \/ \E m \in DOMAIN measures, len \in 0..MaxFrames, eos \in BOOLEAN,
          classify \in {None} \cup {Some(c) : c \in Strategies} :
            Call(m, len, eos, classify)
    \/ \E e \in DOMAIN exchanges, o \in {"NotReady", "Ready", "Err"},
          status \in Statuses, frames \in 0..MaxFrames :
            FutPoll(e, o, status, frames)
    \/ \E e \in DOMAIN exchanges : FutDrop(e)
    \/ \E e \in DOMAIN exchanges, o \in PollOutcomes : RspPollData(e, o)
    \/ \E e \in DOMAIN exchanges, o \in TrailerOutcomes,
          trls \in {None} \cup {Some(t) : t \in Trailers} :
            RspPollTrailers(e, o, trls)
    \/ \E e \in DOMAIN exchanges : RspDrop(e)
    \/ Tick
TimedSpec == Init /\ [][TimedNext]_vars

\* One exchange of the kind: a request whose body is at end-of-stream when
\* called, carrying a strategy; a 200 response with no data frame and with
\* trailers at once, none or "ok"; no error. The consumer polls and drops as
\* it likes.
ScenarioNext ==
    \/ \E target \in Keys : Make(target, TRUE)
    \/ \E m \in DOMAIN measures, c \in Strategies : Call(m, 0, TRUE, Some(c))
    \/ \E e \in DOMAIN exchanges, o \in {"NotReady", "End"} : ReqPollData(e, o)
    \/ \E e \in DOMAIN exchanges : ReqPollTrailers(e, "Ready")
    \/ \E e \in DOMAIN exchanges : ReqDrop(e)
    \/ \E e \in DOMAIN exchanges, o \in {"NotReady", "Ready"} : FutPoll(e, o, "200", 0)
    \/ \E e \in DOMAIN exchanges, o \in {"NotReady", "End"} : RspPollData(e, o)
    \/ \E e \in DOMAIN exchanges, trls \in {None, Some("ok")} :
          RspPollTrailers(e, "Ready", trls)
    \/ \E e \in DOMAIN exchanges : RspDrop(e)
ScenarioSpec == Init /\ [][ScenarioNext]_vars

RetrySpecInit == MetricsInit /\ ret = NoRet /\ RetryInit
RetrySpec == RetrySpecInit /\ [][RetryNext]_vars

-----------------------------------------------------------------------------
(* The Mutex acquisitions of the handlers, thread by thread *)

\* The handlers that take a lock, and the lock() calls and guard drops each
\* makes in program order, for target or aggregate key:
\*   make         : self.registry.lock(), guard dropped at the end of the let
\*   call         : lock.lock() in the if let, guard dropped at its end
\*   poll_data    : RequestBody::poll_data, the same
\*   record_class : lock.lock(), guard `metrics` dropped at the return
LockingHandlers == {"make", "call", "poll_data", "record_class"}

LockStepsNested(op, key) ==
    IF op = "make"
    THEN <<[act |-> "lock", lock |-> "registry"], [act |-> "lock", lock |-> key],
           [act |-> "unlock", lock |-> key], [act |-> "unlock", lock |-> "registry"]>>
    ELSE IF op = "record_class"
    THEN <<[act |-> "lock", lock |-> key], [act |-> "lock", lock |-> "registry"],
           [act |-> "unlock", lock |-> "registry"], [act |-> "unlock", lock |-> key]>>
    ELSE <<[act |-> "lock", lock |-> key], [act |-> "unlock", lock |-> key]>>

LockSteps(op, key) ==
    IF op = "make"
    THEN <<[act |-> "lock", lock |-> "registry"],
           [act |-> "unlock", lock |-> "registry"]>>
    ELSE <<[act |-> "lock", lock |-> key], [act |-> "unlock", lock |-> key]>>

\* The step thread t is at, and whether some thread holds lock l.
AtStep(t) == threads[t].pc \in 1..Len(LockSteps(threads[t].op, threads[t].key))
ThreadStep(t) == LockSteps(threads[t].op, threads[t].key)[threads[t].pc]
Held(l) == \E u \in Threads : l \in threads[u].held

\* The executor runs a handler on thread t: a non-blocking step begins.
Enter(t, op, key) ==
    /\ threads[t].op = "idle"
    /\ threads' = [threads EXCEPT ![t] = [op |-> op, key |-> key, pc |-> 1, held |-> {}]]
    /\ UNCHANGED <<metricsVars, ret, retryVars>>

\* Mutex::lock: blocks the thread until no thread holds the lock.
Acquire(t) ==
    /\ AtStep(t)
    /\ ThreadStep(t).act = "lock"
    /\ ~Held(ThreadStep(t).lock)
    /\ threads' = [threads EXCEPT ![t].held = @ \cup {ThreadStep(t).lock},
                                  ![t].pc = @ + 1]
    /\ UNCHANGED <<metricsVars, ret, retryVars>>

\* The MutexGuard goes out of scope.
Release(t) ==
    /\ AtStep(t)
    /\ ThreadStep(t).act = "unlock"
    /\ threads' = [threads EXCEPT ![t].held = @ \ {ThreadStep(t).lock},
                                  ![t].pc = @ + 1]
    /\ UNCHANGED <<metricsVars, ret, retryVars>>

\* The handler returns to the executor: the thread is at a suspension point.
Return(t) ==
    /\ threads[t].op # "idle"
    /\ ~AtStep(t)
    /\ threads' = [threads EXCEPT ![t] = [IdleThread EXCEPT !.held = threads[t].held]]
    /\ UNCHANGED <<metricsVars, ret, retryVars>>

LockNext ==
    \/ \E t \in Threads, op \in LockingHandlers, key \in Keys : Enter(t, op, key)
    \/ \E t \in Threads : Acquire(t)
    \/ \E t \in Threads : Release(t)
    \/ \E t \in Threads : Return(t)

LockSpec == Init /\ [][LockNext]_vars

-----------------------------------------------------------------------------
(* Retry::retry: the claims, checked under RetrySpec *)

LastCheck == log[Len(log)]

\* The last invocation read from its inputs: within the timeout, and failing
\* by the attached class or else by the first matching rule.
LastWithinTimeout == ret.op = "retry" /\ ret.elapsed <= retry.timeout
LastMatching == {i \in 1..Len(retry.response_classes) :
                    ret.res.status \in retry.response_classes[i].statuses}
LastFailing ==
    IF ret.res.class # None THEN ret.res.class = Some("failure")
    ELSE /\ LastMatching # {}
         /\ \E i \in LastMatching :
              /\ \A j \in LastMatching : i <= j
              /\ retry.response_classes[i].failure

\* C4: an invocation with now - started_at > timeout returns NoRetry::Timeout,
\* whatever the response's status, its attached class, the rules and the budget.
C4_TimeoutAlwaysDenies ==
    (ret.op = "retry" /\ ret.elapsed > retry.timeout) => ret.decision = "Timeout"

\* A response with an attached failure class and budget to spend, timed out.
C4_Witness ==
    /\ ret.op = "retry"
    /\ ret.elapsed > retry.timeout
    /\ ret.res.class = Some("failure")
    /\ LastCheck.before >= 1
    /\ ret.decision = "Timeout"

\* C5: a failing response checked within the timeout attempts one withdrawal:
\* the retry is allowed iff the budget had a unit, which is then spent, and is
\* denied with NoRetry::Budget otherwise; so from capacity C, with only such
\* checks, the first C are allowed and every later one is denied.
C5_BudgetGatesRetry ==
    /\ (LastWithinTimeout /\ LastFailing) =>
          /\ LastCheck.op = "withdraw"
          /\ ret.decision = (IF LastCheck.before >= 1 THEN "Retry" ELSE "Budget")
          /\ LastCheck.after = LastCheck.before - (IF LastCheck.before >= 1 THEN 1 ELSE 0)
          /\ budget = LastCheck.after
    /\ (\A i \in 1..Len(log) : ~log[i].timedOut /\ log[i].failure) =>
          \A i \in 1..Len(log) :
             log[i].decision = (IF i <= log[1].before THEN "Retry" ELSE "Budget")

\* Capacity 2, three failing responses back to back: allow, allow, deny(Budget).
C5_Witness ==
    /\ Len(log) = 3
    /\ log[1].before = 2
    /\ LastWithinTimeout /\ LastFailing
    /\ \A i \in 1..3 : ~log[i].timedOut /\ log[i].failure
    /\ <<log[1].decision, log[2].decision, log[3].decision>> = <<"Retry", "Retry", "Budget">>

\* C6: a response classified as success, checked within the timeout, deposits
\* one unit and returns NoRetry::Success; the unit is there for the next
\* withdrawal, so a failure checked right after a Budget denial and a success
\* is allowed.
C6_SuccessDeposits ==
    /\ (LastWithinTimeout /\ ~LastFailing) =>
          /\ ret.decision = "Success"
          /\ LastCheck.op = "deposit"
          /\ LastCheck.after = LastCheck.before + 1
          /\ budget > LastCheck.before
    /\ \A i \in 1..(Len(log) - 2) :
          (/\ log[i].decision = "Budget"
           /\ log[i + 1].decision = "Success"
           /\ ~log[i + 2].timedOut /\ log[i + 2].failure) =>
             log[i + 2].decision = "Retry"

\* A denial for budget, then a success, then a failure that is allowed.
C6_Witness ==
    /\ Len(log) = 3
    /\ <<log[1].decision, log[2].decision, log[3].decision>> = <<"Budget", "Success", "Retry">>
    /\ log[2].op = "deposit"

\* C7 as stated: every invocation performs a withdraw or a deposit.
C7_EveryCheckTouchesBudget ==
    \A i \in 1..Len(log) : log[i].op \in {"withdraw", "deposit"}

\* C7 amended: an invocation within the timeout performs exactly one budget
\* operation, a withdraw for a failure and a deposit for a success; one past
\* the timeout returns Timeout and performs none, leaving the budget as it was.
C7_BudgetTouchedWithinTimeout ==
    /\ ret.op = "retry" =>
          /\ LastCheck.timedOut = (ret.elapsed > retry.timeout)
          /\ budget = LastCheck.after
    /\ \A i \in 1..Len(log) :
          IF log[i].timedOut
          THEN log[i].op = "none" /\ log[i].after = log[i].before
          ELSE log[i].op = (IF log[i].failure THEN "withdraw" ELSE "deposit")

\* A timed-out invocation that left the budget alone, after one that did not.
C7_Witness ==
    /\ Len(log) >= 2
    /\ ret.op = "retry" /\ ret.elapsed > retry.timeout
    /\ LastCheck.op = "none" /\ LastCheck.before = budget
    /\ log[1].op = "deposit"

\* C8: within the timeout an attached classification alone decides failure or
\* success; without one the first rule, in rule order, that matches the
\* response decides; a response no rule matches is a success.
C8_ClassificationOrder ==
    LastWithinTimeout =>
       /\ LastCheck.failure = LastFailing
       /\ (ret.decision \in {"Retry", "Budget"}) = LastFailing
       /\ (ret.decision = "Success") = ~LastFailing

\* Two rules match a 500 and disagree: the first, a failure, decides.
C8_Witness ==
    /\ LastWithinTimeout
    /\ ret.res = [status |-> "500", class |-> None]
    /\ retry.response_classes = <<Rule500Failure, RuleAnySuccess>>
    /\ ret.decision \in {"Retry", "Budget"}

\* An attached success class on a response the rules call a failure.
C8_WitnessAttached ==
    /\ LastWithinTimeout
    /\ ret.res = [status |-> "500", class |-> Some("success")]
    /\ retry.response_classes = <<Rule500Failure>>
    /\ ret.decision = "Success"

-----------------------------------------------------------------------------
(* The metrics middleware: the claims, checked under Spec *)

Exchanges == {exchanges[e] : e \in DOMAIN exchanges}

\* The handle the Measure of exchange x holds.
Sink(x) == measures[x.m].metrics
LockAcquirable(x) == IsSome(Sink(x)) /\ ~aggs[Unwrap(Sink(x))].poisoned

\* The exchange is over: its response future failed or was dropped, or its
\* response body was dropped.
Concluded(x) == x.fut_state \in {"failed", "dropped"} \/ x.rsp_state = "dropped"

\* The request body has reached end-of-stream: it was there at call time, or
\* poll_data has yielded the end-of-stream result.
ReachedEos(x) == x.req_eos_at_call \/ x.req_ended

RECURSIVE SumIncrs(_, _)
SumIncrs(h, n) ==
    IF n = 0 THEN 0
    ELSE SumIncrs(h, n - 1)
         + (IF Sink(exchanges[n]) = Some(h) THEN exchanges[n].req_incrs ELSE 0)

\* C1 as stated: a concluded exchange with a metrics handle and an acquirable
\* aggregate lock has exactly one class-or-unclassified record.
C1_ExactlyOneRecordPerExchange ==
    \A x \in Exchanges :
       (Concluded(x) /\ LockAcquirable(x)) => x.recorded = 1

\* C2 as stated: the total of an aggregate is the number of its exchanges
\* whose request body has reached end-of-stream.
C2_TotalCountsEndOfStream ==
    \A h \in DOMAIN aggs :
       ~aggs[h].poisoned =>
          aggs[h].total =
             Cardinality({e \in DOMAIN exchanges :
                             Sink(exchanges[e]) = Some(h) /\ ReachedEos(exchanges[e])})

\* C3: total is incremented at most once per request, in call or in a
\* poll_data; once it has been, the request body holds no metrics handle, and
\* the aggregate's total is the sum of these increments.
C3_TotalAtMostOncePerRequest ==
    /\ \A x \in Exchanges :
          /\ x.req_incrs <= 1
          /\ x.req_incrs = 1 => x.req_metrics = None
          /\ x.req_eos_at_call => x.req_metrics = None
    /\ \A h \in DOMAIN aggs : aggs[h].total = SumIncrs(h, Len(exchanges))

\* A body counted at its data frame, polled again to its end and dropped.
C3_Witness ==
    \E x \in Exchanges :
       /\ x.req_incrs = 1
       /\ ~x.req_eos_at_call /\ x.req_len >= 1 /\ x.req_left = 0
       /\ x.req_ended
       /\ x.req_state = "dropped"

\* The makes that returned a Measure with the registry lock acquired, and
\* the keys they were for.
C9_Made == {i \in DOMAIN measures : measures[i].ok /\ measures[i].locked}
C9_Keys == {measures[i].target : i \in C9_Made}
C9_OnePerKey ==
    /\ DOMAIN registry.by_target = C9_Keys
    /\ Len(aggs) = Cardinality(C9_Keys)
    /\ \A k \in C9_Keys : registry.by_target[k] \in DOMAIN aggs
    /\ \A k, l \in C9_Keys : k # l => registry.by_target[k] # registry.by_target[l]
    /\ \A i \in C9_Made : measures[i].metrics = Some(registry.by_target[measures[i].target])
C9_Kept ==
    /\ \A k \in DOMAIN registry.by_target :
          /\ k \in DOMAIN registry'.by_target
          /\ registry'.by_target[k] = registry.by_target[k]
    /\ measures' # measures => \A h \in DOMAIN aggs : aggs'[h] = aggs[h]
\* C9: the registry holds exactly one aggregate per key for which a make
\* returned a Measure with the registry lock acquired; all these Measures hold
\* the aggregate of their key; no step removes or replaces an entry, and a
\* make leaves every existing aggregate as it is.
C9_OneAggregatePerKey == []C9_OnePerKey /\ [][C9_Kept]_vars

\* Two Measures made for one key, sharing an aggregate that has counted.
C9_Witness ==
    /\ Len(measures) = 2
    /\ C9_Made = {1, 2}
    /\ measures[1].target = measures[2].target
    /\ measures[1].metrics = measures[2].metrics
    /\ aggs[Unwrap(measures[1].metrics)].total = 1

\* C10: a make that finds the registry lock poisoned still returns a Measure,
\* one with no metrics sink, and adds nothing to the registry; an exchange
\* through such a Measure carries no handle, makes no total increment and no
\* class record, and is handed every result of the inner service as it is.
C10_NoSinkNoMetrics ==
    /\ \A i \in DOMAIN measures :
          (measures[i].ok /\ ~measures[i].locked) => measures[i].metrics = None
    /\ DOMAIN registry.by_target = C9_Keys
    /\ Len(aggs) = Cardinality(C9_Keys)
    /\ \A x \in Exchanges :
          Sink(x) = None =>
             /\ x.req_metrics = None /\ x.metrics = None
             /\ x.req_incrs = 0
             /\ x.recorded = 0
             /\ ~x.masked

\* An exchange through a Measure without sink, for a key the registry does not
\* hold: request body polled to its end, response consumed and dropped.
C10_Witness ==
    \E x \in Exchanges :
       /\ measures[x.m].ok /\ ~measures[x.m].locked
       /\ measures[x.m].target \notin DOMAIN registry.by_target
       /\ x.req_ended
       /\ x.rsp_state = "dropped"
       /\ IsSome(x.first_byte_at)

\* The records of class in an aggregate, and the class the drop finalizer
\* derives: eos with no trailers, or none without a strategy.
ClassCount(metrics, class) ==
    IF IsSome(class)
    THEN (IF Unwrap(class) \in DOMAIN metrics.by_class
          THEN metrics.by_class[Unwrap(class)].total ELSE 0)
    ELSE metrics.unclassified.total
DropClass(x) ==
    IF IsSome(x.classify) THEN Some(ClassifyEos(Unwrap(x.classify), None)) ELSE None

C11_Dropped ==
    \A x \in Exchanges :
       (x.rsp_state = "dropped" /\ LockAcquirable(x)) =>
          x.recorded = 1 /\ x.metrics = None /\ x.classify = None
C11_DropStep ==
    \A e \in DOMAIN exchanges :
       LET x == exchanges[e]
           y == exchanges'[e]
       IN  (/\ x.rsp_state = "live" /\ y.rsp_state = "dropped"
            /\ x.recorded = 0
            /\ IsSome(x.metrics) /\ ~aggs[Unwrap(x.metrics)].poisoned) =>
              /\ y.recorded = 1 /\ y.recorded_by = "drop"
              /\ y.recorded_class = Some(DropClass(x))
              /\ y.terminals = x.terminals + (IF IsSome(x.classify) THEN 1 ELSE 0)
              /\ ClassCount(aggs'[Unwrap(x.metrics)], DropClass(x))
                    = ClassCount(aggs[Unwrap(x.metrics)], DropClass(x)) + 1
\* C11: the drop of a response body for which no class is recorded, its
\* handle in place and the lock acquirable, invokes eos with no trailers and
\* records the class it gives, or unclassified without a strategy; so every
\* dropped response body of a Measure with a sink has exactly one record.
C11_DropRecords == []C11_Dropped /\ [][C11_DropStep]_vars

\* A body abandoned after its first data frame: the drop recorded eos(None).
C11_Witness ==
    \E x \in Exchanges :
       /\ x.rsp_state = "dropped"
       /\ x.recorded_by = "drop"
       /\ x.recorded_class = Some(Some("failure"))
       /\ IsSome(x.first_data_at)
       /\ x.terminals = 1
       /\ ClassCount(aggs[Unwrap(Sink(x))], Some("failure")) = 1

\* The request-body side of an exchange, the counters of an aggregate, and a
\* step that is none of a make, a call, an operation on another exchange or
\* one on the request body of exchange e.
ReqSide(x) == <<x.req_metrics, x.req_state, x.req_left, x.req_ended, x.req_incrs>>
Counters(metrics) == <<metrics.total, metrics.by_class, metrics.unclassified>>
OnlyResponseBody(e) ==
    /\ measures' = measures
    /\ Len(exchanges') = Len(exchanges)
    /\ \A f \in DOMAIN exchanges : f # e => exchanges'[f] = exchanges[f]
    /\ ReqSide(exchanges'[e]) = ReqSide(exchanges[e])

C12_Once ==
    \A x \in Exchanges :
       /\ x.recorded <= 1
       /\ x.recorded = 1 => x.metrics = None
C12_Kept ==
    \A e \in DOMAIN exchanges :
       LET x == exchanges[e]
           y == exchanges'[e]
       IN  x.recorded = 1 =>
              /\ y.recorded = 1
              /\ y.recorded_class = x.recorded_class
              /\ y.latency = x.latency
              /\ OnlyResponseBody(e) =>
                    \A h \in DOMAIN aggs : Counters(aggs'[h]) = Counters(aggs[h])
\* C12: an exchange records at most once and its response body holds no
\* handle afterwards; from then on every poll_data, poll_trailers, error and
\* the drop on that response body leave the record of the exchange and the
\* counters of every aggregate as they are.
C12_RecordedOnce == []C12_Once /\ [][C12_Kept]_vars

\* A head class recorded at a data poll; the drop (or trailers) that came
\* later ran eos and recorded nothing more.
C12_Witness ==
    \E x \in Exchanges :
       /\ x.recorded_by = "data"
       /\ x.recorded = 1
       /\ x.terminals = 1
       /\ x.rsp_state = "dropped"
       /\ ClassCount(aggs[Unwrap(Sink(x))], Unwrap(x.recorded_class)) = 1
       /\ aggs[Unwrap(Sink(x))].unclassified.total = 0

C13_Erred ==
    \A x \in Exchanges :
       /\ ~x.masked
       /\ x.erred =>
             /\ x.classify = None /\ x.class_at_first_byte = None
             /\ x.metrics = None
C13_ErrStep ==
    \A e \in DOMAIN exchanges :
       LET x == exchanges[e]
           y == exchanges'[e]
           c == IF IsSome(x.classify) THEN Some(ClassifyError(Unwrap(x.classify)))
                ELSE None
       IN  (~x.erred /\ y.erred) =>
              /\ y.terminals = x.terminals + (IF IsSome(x.classify) THEN 1 ELSE 0)
              /\ (/\ x.recorded = 0 /\ IsSome(x.metrics)
                  /\ ~aggs[Unwrap(x.metrics)].poisoned) =>
                    /\ y.recorded = 1 /\ y.recorded_by = "error"
                    /\ y.recorded_class = Some(c)
                    /\ ClassCount(aggs'[Unwrap(x.metrics)], c)
                          = ClassCount(aggs[Unwrap(x.metrics)], c) + 1
              /\ x.recorded = 1 =>
                    /\ y.recorded = 1 /\ y.recorded_class = x.recorded_class
                    /\ aggs' = aggs
\* C13: the wrappers return every result of the inner body as it is, errors
\* included; the first error of the inner response body invokes the
\* strategy's error, if a strategy is left, and with no record made yet, the
\* handle in place and the lock acquirable it records the class error gave
\* (unclassified without a strategy); an error after a record changes nothing
\* of it; after an error the body holds no strategy, head class or handle.
C13_ErrorsPassThrough == []C13_Erred /\ [][C13_ErrStep]_vars

\* An error of the inner body after the response head: error class recorded.
C13_Witness ==
    \E x \in Exchanges :
       /\ x.erred
       /\ x.starts = 1 /\ x.terminals = 1
       /\ x.recorded_by = "error"
       /\ x.recorded_class = Some(Some("failure"))
       /\ ~x.masked

\* The exchanges through aggregate h.
Through(h) == {e \in DOMAIN exchanges : Sink(exchanges[e]) = Some(h)}

\* C14: an aggregate whose one exchange had a request body at end-of-stream
\* when called, a strategy that classes a 200 as success, a 200 response with
\* no data frame and trailers at once, has total 1, one record under success
\* and none under unclassified when the response body has been dropped.
C14_EmptyBodySuccess ==
    \A h \in DOMAIN aggs :
       (/\ Cardinality(Through(h)) = 1
        /\ \A e \in Through(h) : exchanges[e].rsp_state = "dropped") =>
          /\ aggs[h].total = 1
          /\ DOMAIN aggs[h].by_class = {"success"}
          /\ aggs[h].by_class["success"].total = 1
          /\ aggs[h].unclassified.total = 0

\* The response consumed to its trailers, which made the record, and dropped.
C14_Witness ==
    \E x \in Exchanges :
       /\ x.req_eos_at_call /\ x.req_incrs = 1
       /\ IsSome(x.first_byte_at)
       /\ x.recorded_by = "trailers"
       /\ x.rsp_state = "dropped"
       /\ aggs[Unwrap(Sink(x))].total = 1
       /\ aggs[Unwrap(Sink(x))].by_class["success"].total = 1

\* C15 as stated: once the head class has been recorded at a data poll, no
\* eos or error of the strategy is invoked for the exchange.
C15_NoStrategyCallAfterHeadClass ==
    \A x \in Exchanges : x.recorded_by = "data" => x.terminals = 0

\* C16: per exchange start is invoked at most once and at most one of error
\* and eos is, once, and only after start; after it the response body holds
\* no strategy.
C16_StrategyOnce ==
    \A x \in Exchanges :
       /\ x.starts <= 1
       /\ x.terminals <= 1
       /\ x.terminals <= x.starts
       /\ x.terminals = 1 => x.classify = None
       /\ IsSome(x.classify) => x.starts = (IF x.rsp_state = "none" THEN 0 ELSE 1)

\* Response head, an error of the body, a ready poll_trailers, then the drop:
\* one start and one error, no eos.
C16_Witness ==
    \E x \in Exchanges :
       /\ x.starts = 1
       /\ x.erred
       /\ x.terminals = 1
       /\ x.rsp_state = "dropped"
       /\ x.recorded_by = "error"

\* C17 as stated: a recorded latency is >= 0; it is the time of the first
\* data frame less the stream-open time when a data frame had come by the
\* time of the record, and the time of the record_class call less the
\* stream-open time when no data frame ever came.
C17_LatencyFirstDataOrFinalization ==
    \A x \in Exchanges :
       x.recorded = 1 =>
          LET lat == Unwrap(x.latency)
              at == Unwrap(x.recorded_at)
          IN  /\ lat >= 0
              /\ (IsSome(x.first_data_at) /\ Unwrap(x.first_data_at) <= at) =>
                    lat = Unwrap(x.first_data_at) - x.stream_open_at
              /\ ~IsSome(x.first_data_at) => lat = at - x.stream_open_at

\* Thread t can take a step: it is in a handler and is not waiting for a lock
\* that a thread holds.
CanStep(t) ==
    /\ threads[t].op # "idle"
    /\ AtStep(t) => (ThreadStep(t).act = "unlock" \/ ~Held(ThreadStep(t).lock))

\* C18: a thread outside of a handler, at a suspension point, holds no lock;
\* no thread holds two locks; no two threads hold the same lock; and whenever
\* a thread is inside a handler some thread can step, so that no interleaving
\* of makes and exchanges on the same keys ends in a deadlock.
C18_LocksWithinOneStep ==
    /\ \A t \in Threads :
          /\ threads[t].op = "idle" => threads[t].held = {}
          /\ Cardinality(threads[t].held) <= 1
          /\ threads[t].held \subseteq Locks
    /\ \A t, u \in Threads : t # u => threads[t].held \cap threads[u].held = {}
    /\ (\E t \in Threads : threads[t].op # "idle") => \E t \in Threads : CanStep(t)
    /\ \A t \in Threads : (threads[t].op # "idle" /\ ~CanStep(t)) =>
          \E u \in Threads : u # t /\ CanStep(u) /\ ThreadStep(t).lock \in threads[u].held

\* Two threads on one aggregate: one inside record_class holding its lock,
\* the other blocked in RequestBody::poll_data on the same lock.
C18_Witness ==
    \E t, u \in Threads :
       /\ threads[t].op = "record_class" /\ threads[t].held = {threads[t].key}
       /\ threads[u].op = "poll_data" /\ threads[u].key = threads[t].key
       /\ threads[u].held = {}
       /\ ~CanStep(u)

\* The classes eos can give for the strategy of x on ready trailers.
TrailersClasses(x) ==
    IF IsSome(x.classify)
    THEN {Some(ClassifyEos(Unwrap(x.classify), trls)) :
             trls \in {None} \cup {Some(t) : t \in Trailers}}
    ELSE {None}

C19_ByCaller ==
    \A x \in Exchanges :
       /\ x.recorded_by = "data" => IsSome(x.first_byte_at) /\ IsSome(Unwrap(x.recorded_class))
       /\ x.recorded_by = "error" =>
             x.erred /\ Unwrap(x.recorded_class) \in {None, Some(ClassifyError(None))}
       /\ x.recorded_by = "drop" => x.rsp_state = "dropped"
C19_RecordStep ==
    \A e \in DOMAIN exchanges :
       LET x == exchanges[e]
           y == exchanges'[e]
       IN  (x.recorded = 0 /\ y.recorded = 1) =>
              /\ y.recorded_by = "data" =>
                    /\ y.recorded_class = Some(x.class_at_first_byte)
                    /\ IsSome(x.class_at_first_byte)
                    /\ ~x.erred /\ x.terminals = 0 /\ y.terminals = 0
                    /\ x.rsp_state = "live" /\ y.rsp_state = "live"
              /\ y.recorded_by = "error" =>
                    y.recorded_class =
                       Some(IF IsSome(x.classify)
                            THEN Some(ClassifyError(Unwrap(x.classify))) ELSE None)
              /\ y.recorded_by = "trailers" =>
                    Unwrap(y.recorded_class) \in TrailersClasses(x)
              /\ y.recorded_by = "drop" => y.recorded_class = Some(DropClass(x))
              /\ y.recorded_by # "none"
\* C19: the class start gave is recorded only by a poll_data that returns
\* Ready while no error has come, no poll_trailers has been ready and the
\* body is not dropped; a record made by an error, a ready poll_trailers or
\* the drop carries the class of error, of eos on the trailers or of eos
\* with none, whatever class start gave.
C19_HeadClassOnlyAtData == []C19_ByCaller /\ [][C19_RecordStep]_vars

\* start gave success; the trailers came ready before any data poll and
\* classed the exchange a failure, which is what was recorded.
C19_Witness ==
    \E x \in Exchanges :
       /\ x.class_at_first_byte = Some("success")
       /\ x.recorded_by = "trailers"
       /\ x.recorded_class = Some(Some("failure"))

C20_NoEntryForFailedMake ==
    \A i \in DOMAIN measures :
       ~measures[i].ok =>
          /\ measures[i].metrics = None
          /\ measures[i].target \in DOMAIN registry.by_target =>
                \E j \in C9_Made : measures[j].target = measures[i].target
C20_FailedMakeStep ==
    (/\ Len(measures') = Len(measures) + 1
     /\ ~measures'[Len(measures')].ok) =>
       registry' = registry /\ aggs' = aggs
\* C20: a make whose inner factory fails returns the error, no Measure, and
\* leaves the registry and every aggregate as they were: the target gets no
\* entry from it and the entries there are stay.
C20_FailedMakeLeavesRegistry == []C20_NoEntryForFailedMake /\ [][C20_FailedMakeStep]_vars

\* A make for "a" that succeeded, then one for "b" whose inner make failed.
C20_Witness ==
    /\ Len(measures) = 2
    /\ measures[1].ok /\ measures[1].target = "a"
    /\ ~measures[2].ok /\ measures[2].target = "b"
    /\ DOMAIN registry.by_target = {"a"}
    /\ Len(aggs) = 1

====
